---- MODULE Spec2Model ----
(***************************************************************************)
(* Model of src/server.py: a thread-per-connection HTTP server that serves *)
(* static files from PUBLIC_DIR and accepts GLTF/GLB uploads on            *)
(* POST /api/generate, storing each upload in a scratch file in UPLOAD_DIR *)
(* that is handed to the generate_video_using_veo collaborator.            *)
(*                                                                         *)
(* Python strings that the code takes apart (request paths, file names)    *)
(* are sequences of one-character strings; strings the code only compares  *)
(* or copies are TLA+ strings.  An Optional[str] is <<>> (None) or <<s>>.  *)
(***************************************************************************)
EXTENDS Integers, Sequences, FiniteSets, TLC

VARIABLES
    pc,       \* pc[t]: where handler thread t is in its request
    req,      \* req[t]: the request thread t is handling
    resp,     \* resp[t]: the responses thread t has sent for req[t], in order
    tmp,      \* tmp[t]: temp_path of do_POST (file name in UPLOAD_DIR), <<>> before mkstemp
    opened,   \* opened[t]: files under the filesystem that the handler opened for reading
    checks,   \* checks[t]: the validation checks do_POST evaluated, in order, with results
    veo,      \* veo[t]: what happened at the collaborator call of req[t]
    exc,      \* exc[t]: the exception that left the handler ("" when none)
    uploads   \* the files that exist in UPLOAD_DIR

vars == <<pc, req, resp, tmp, opened, checks, veo, exc, uploads>>

---------------------------------------------------------------------------
(* Bounds *)

MaxPathLen == 5     \* longest request path of a GET, in characters
MaxNames == 2       \* random tokens tempfile can draw for a scratch-file name
NumWorkers == 2     \* concurrent handler threads in SpecConc

---------------------------------------------------------------------------
(* Strings as character sequences *)

RECURSIVE SplitOn(_, _)
\* str.split(c): the components of s between occurrences of c
SplitOn(s, c) ==
    IF s = <<>> THEN << <<>> >>
    ELSE LET rest == SplitOn(Tail(s), c) IN
         IF Head(s) = c THEN << <<>> >> \o rest
         ELSE << <<Head(s)>> \o Head(rest) >> \o Tail(rest)

RECURSIVE LStrip(_, _)
\* str.lstrip(c)
LStrip(s, c) ==
    IF s # <<>> /\ Head(s) = c THEN LStrip(Tail(s), c) ELSE s

RECURSIVE JoinWith(_, _)
\* c.join(comps)
JoinWith(comps, c) ==
    IF comps = <<>> THEN <<>>
    ELSE IF Len(comps) = 1 THEN comps[1]
    ELSE comps[1] \o <<c>> \o JoinWith(Tail(comps), c)

RECURSIVE RFind(_, _)
\* str.rfind(c) counted from 1; 0 when c does not occur
RFind(s, c) ==
    IF s = <<>> THEN 0
    ELSE IF s[Len(s)] = c THEN Len(s)
    ELSE RFind(SubSeq(s, 1, Len(s) - 1), c)

LowerChar(c) ==
    CASE c = "G" -> "g" [] c = "L" -> "l" [] c = "T" -> "t" [] c = "F" -> "f"
      [] c = "B" -> "b" [] c = "X" -> "x" [] c = "C" -> "c"
      [] OTHER -> c

\* str.lower()
Lower(s) == [i \in 1..Len(s) |-> LowerChar(s[i])]

Dot == <<".">>
DotDot == <<".", ".">>

RECURSIVE NormComps(_, _, _)
\* the loop of posixpath.normpath over the split components
NormComps(comps, new_comps, initial_slashes) ==
    IF comps = <<>> THEN new_comps
    ELSE LET comp == Head(comps) IN
         IF comp = <<>> \/ comp = Dot
         THEN NormComps(Tail(comps), new_comps, initial_slashes)
         ELSE IF comp # DotDot
                 \/ (~initial_slashes /\ new_comps = <<>>)
                 \/ (new_comps # <<>> /\ new_comps[Len(new_comps)] = DotDot)
         THEN NormComps(Tail(comps), Append(new_comps, comp), initial_slashes)
         ELSE IF new_comps # <<>>
         THEN NormComps(Tail(comps), SubSeq(new_comps, 1, Len(new_comps) - 1),
                        initial_slashes)
         ELSE NormComps(Tail(comps), new_comps, initial_slashes)

\* posixpath.normpath(path)
NormPath(path) ==
    IF path = <<>> THEN Dot
    ELSE LET initial_slashes == Head(path) = "/"
             comps == NormComps(SplitOn(path, "/"), <<>>, initial_slashes)
             joined == JoinWith(comps, "/")
             out == IF initial_slashes THEN <<"/">> \o joined ELSE joined
         IN IF out = <<>> THEN Dot ELSE out

\* pathlib: the parts of a relative path string ("" and "." components vanish)
PathParts(s) ==
    SelectSeq(SplitOn(s, "/"), LAMBDA comp : comp # <<>> /\ comp # Dot)

\* PurePath.name
PathName(parts) == IF parts = <<>> THEN <<>> ELSE parts[Len(parts)]

\* PurePath.suffix
PathSuffix(parts) ==
    LET name == PathName(parts)
        i == RFind(name, ".")
    IN IF 1 < i /\ i < Len(name) THEN SubSeq(name, i, Len(name)) ELSE <<>>

---------------------------------------------------------------------------
(* The filesystem the server runs on: absolute paths as sequences of names *)

App == <<"a", "p", "p">>
Public == <<"p", "u", "b", "l", "i", "c">>
Uploads == <<"u", "p", "l", "o", "a", "d", "s">>
Src == <<"s", "r", "c">>
IndexHtml == <<"i", "n", "d", "e", "x", ".", "h", "t", "m", "l">>
S == <<"s">>
SS == <<"s", "s">>

PUBLIC_DIR == <<App, Public>>
UPLOAD_DIR == <<App, Uploads>>

Dirs == { <<>>, <<App>>, PUBLIC_DIR, UPLOAD_DIR, <<App, Src>>, <<App, Public, SS>> }

\* regular files: three inside the public root, two outside it
Files == { <<App, Public, IndexHtml>>, <<App, Public, S>>, <<App, Public, SS, S>>,
           <<App, S>>, <<S>> }

NoEnt == << <<>> >>     \* result of resolving a path that does not exist

RECURSIVE Walk(_, _)
\* the kernel's resolution of the remaining parts from directory cur
Walk(cur, parts) ==
    IF parts = <<>> THEN cur
    ELSE IF cur \notin Dirs THEN NoEnt
    ELSE IF Head(parts) = DotDot
    THEN Walk(IF cur = <<>> THEN <<>> ELSE SubSeq(cur, 1, Len(cur) - 1), Tail(parts))
    ELSE Walk(Append(cur, Head(parts)), Tail(parts))

\* path.exists() and path.is_file()
IsFile(parts) == Walk(<<>>, parts) \in Files

---------------------------------------------------------------------------
(* Requests *)

RECURSIVE SeqsUpTo(_, _)
SeqsUpTo(A, n) ==
    IF n = 0 THEN { <<>> }
    ELSE LET shorter == SeqsUpTo(A, n - 1) IN
         shorter \cup { Append(s, a) : s \in { x \in shorter : Len(x) = n - 1 }, a \in A }

PathChars == { "/", ".", "?", "s" }

ApiGenerate == <<"/", "a", "p", "i", "/", "g", "e", "n", "e", "r", "a", "t", "e">>

Paths == SeqsUpTo(PathChars, MaxPathLen) \cup { ApiGenerate }

\* paths for the methods whose handler never reads the path
FewPaths == { <<>>, <<"/">>, <<"/", "s">>, <<".", ".", "/", "s">>, ApiGenerate }

NoForm == [broken |-> FALSE, parts |-> <<>>]
NoLength == [kind |-> "absent", n |-> 0]

BareRequest(m, p) ==
    [method |-> m, path |-> p, ctype |-> <<>>, clen |-> NoLength, form |-> NoForm]

\* Content-Type header values, as the ";"-separated tokens of the header line
FormData == <<"multipart/form-data", "boundary=BB">>
CTypes == { <<>>, FormData, <<"multipart/form-data">>, <<"application/json">> }

MAX_CONTENT_LENGTH == 100 * 1024 * 1024

\* Content-Length header values: absent, a decimal literal, or text int() rejects
CLens == { NoLength,
           [kind |-> "int", n |-> 4],
           [kind |-> "int", n |-> MAX_CONTENT_LENGTH],
           [kind |-> "int", n |-> MAX_CONTENT_LENGTH + 1],
           [kind |-> "garbage", n |-> 0] }

CarGlb == <<"c", ".", "g", "l", "b">>

\* client-supplied file names of the model part
Filenames == { CarGlb,
               <<"c", ".", "G", "L", "B">>,
               <<"c", ".", "g", "l", "t", "f">>,
               <<"c", ".", "G", "l", "T", "f">>,
               <<"x", "/", "c", ".", "g", "l", "b">>,
               <<"c">>,
               <<"c", ".", "t", "x", "t">>,
               <<"c", ".", "g", "l", "b", "x">>,
               <<"c", ".", "g", "l", "b", ".">>,
               <<".", "g", "l", "b">>,
               <<"c", ".", "g", "l", "b", "/", "x">>,
               <<"c", ".", "g", "l", "b", ".", "t", "x", "t">> }

\* a part of the multipart body: filename is None (<<>>) or <<name>>
FilePart(fn) == [name |-> "model", filename |-> <<fn>>, value |-> "bytes"]
ValuePart(n, v) == [name |-> n, filename |-> <<>>, value |-> v]

ModelParts ==
    { <<>>, <<ValuePart("model", "text")>>, <<FilePart(<<>>)>>,
      <<FilePart(CarGlb), FilePart(CarGlb)>> }
    \cup { <<FilePart(fn)>> : fn \in Filenames }

PromptParts ==
    { <<>>, <<ValuePart("prompt", "")>>, <<ValuePart("prompt", "ad for a car")>>,
      <<ValuePart("prompt", "ad for a car"), ValuePart("prompt", "second")>> }

\* request bodies: broken = the connection fails while the body is read
Forms ==
    { [broken |-> FALSE, parts |-> m \o p] : m \in ModelParts, p \in PromptParts }
    \cup { [broken |-> TRUE, parts |-> <<>>] }

Methods == { "GET", "POST", "OPTIONS", "PUT", "DELETE", "HEAD" }

Requests ==
    { BareRequest("GET", p) : p \in Paths }
    \cup { BareRequest(m, p) : m \in Methods \ {"GET"}, p \in FewPaths }
    \cup { [method |-> "POST", path |-> p, ctype |-> FormData,
            clen |-> [kind |-> "int", n |-> 4],
            form |-> [broken |-> FALSE, parts |-> <<FilePart(CarGlb)>>]] :
           p \in FewPaths }
    \cup { [method |-> "POST", path |-> ApiGenerate, ctype |-> c, clen |-> l, form |-> f] :
           c \in CTypes, l \in CLens, f \in Forms }

\* the uploads two concurrent clients send in SpecConc
ConcRequests ==
    { [method |-> "POST", path |-> ApiGenerate, ctype |-> FormData,
       clen |-> [kind |-> "int", n |-> 4],
       form |-> [broken |-> FALSE, parts |-> <<FilePart(CarGlb)>> \o p]] :
      p \in { <<>>, <<ValuePart("prompt", "ad for a car")>> } }

NoRequest == BareRequest("", <<>>)

---------------------------------------------------------------------------
(* Responses *)

NoPayload ==
    [videoUrl |-> "", jobId |-> "", status |-> "", usedPrompt |-> "", sourceModel |-> <<>>]

Response(status, headers, kind, message, file, payload) ==
    [status |-> status, headers |-> headers, kind |-> kind, message |-> message,
     file |-> file, payload |-> payload]

\* BaseHTTPRequestHandler.send_error(code, message): status line and an error page
SendError(code, message) ==
    Response(code, { <<"Content-Type", "text/html;charset=utf-8">>, <<"Connection", "close">> },
             "error", message, NoEnt, NoPayload)

CommonHeaders ==
    { <<"Access-Control-Allow-Origin", "*">>, <<"Cache-Control", "no-cache">> }

GuessType(parts) ==
    LET suffix == PathSuffix(parts) IN
    CASE suffix = <<".", "c", "s", "s">> -> "text/css"
      [] suffix = <<".", "j", "s">> -> "application/javascript"
      [] suffix \in { <<".", "h", "t", "m", "l">>, <<".", "h", "t", "m">> } -> "text/html"
      [] suffix = <<".", "j", "s", "o", "n">> -> "application/json"
      [] suffix = <<".", "p", "n", "g">> -> "image/png"
      [] suffix \in { <<".", "j", "p", "g">>, <<".", "j", "p", "e", "g">> } -> "image/jpeg"
      [] suffix = <<".", "s", "v", "g">> -> "image/svg+xml"
      [] OTHER -> "application/octet-stream"

\* str.split("?", 1)[0]
BeforeQuery(url_path) == SplitOn(url_path, "?")[1]

TranslatePath(url_path) ==
    PathParts(NormPath(LStrip(BeforeQuery(url_path), "/")))

\* the path do_GET looks up, as parts below the filesystem root
GetTarget(url_path) ==
    IF url_path = <<"/">> \/ url_path = <<>>
    THEN Append(PUBLIC_DIR, IndexHtml)
    ELSE PUBLIC_DIR \o TranslatePath(url_path)

---------------------------------------------------------------------------
(* State *)

NoVeo == [called |-> FALSE, fileExisted |-> FALSE, outcome |-> "none", payload |-> NoPayload]

InitWith(T) ==
    /\ pc = [t \in T |-> "idle"]
    /\ req = [t \in T |-> NoRequest]
    /\ resp = [t \in T |-> <<>>]
    /\ tmp = [t \in T |-> <<>>]
    /\ opened = [t \in T |-> {}]
    /\ checks = [t \in T |-> <<>>]
    /\ veo = [t \in T |-> NoVeo]
    /\ exc = [t \in T |-> ""]
    /\ uploads = {}

\* one handler thread: requests one after the other
Init == InitWith({1})

\* NumWorkers handler threads, one per accepted connection
InitConc == InitWith(1..NumWorkers)

Threads == DOMAIN pc

\* the handler of thread t ends: r is the request, sent the responses, e the exception
Ended(t, r, sent, e) ==
    /\ pc' = [pc EXCEPT ![t] = "done"]
    /\ req' = [req EXCEPT ![t] = r]
    /\ resp' = [resp EXCEPT ![t] = sent]
    /\ exc' = [exc EXCEPT ![t] = e]

---------------------------------------------------------------------------
(* Handlers *)

\* DoOptions answering 200 without the Access-Control-Allow-Headers header
DoOptionsOk(t) ==
    /\ pc[t] = "idle"
    /\ \E r \in Requests :
        /\ r.method = "OPTIONS"
        /\ Ended(t, r,
                 << Response(200,
                             { <<"Access-Control-Allow-Origin", "*">>,
                               <<"Access-Control-Allow-Methods", "POST, GET, OPTIONS">> },
                             "empty", "", NoEnt, NoPayload) >>,
                 "")
    /\ UNCHANGED <<tmp, opened, checks, veo, uploads>>

\* do_OPTIONS
DoOptions(t) ==
    /\ pc[t] = "idle"
    /\ \E r \in Requests :
        /\ r.method = "OPTIONS"
        /\ Ended(t, r,
                 << Response(204,
                             { <<"Access-Control-Allow-Origin", "*">>,
                               <<"Access-Control-Allow-Methods", "POST, GET, OPTIONS">>,
                               <<"Access-Control-Allow-Headers", "Content-Type">> },
                             "empty", "", NoEnt, NoPayload) >>,
                 "")
    /\ UNCHANGED <<tmp, opened, checks, veo, uploads>>

\* do_GET
DoGet(t) ==
    /\ pc[t] = "idle"
    /\ \E r \in Requests :
        /\ r.method = "GET"
        /\ LET path == GetTarget(r.path) IN
           IF ~IsFile(path)
           THEN /\ Ended(t, r, << SendError(404, "File not found") >>, "")
                /\ UNCHANGED opened
           ELSE /\ Ended(t, r,
                         << Response(200,
                                     CommonHeaders \cup { <<"Content-Type", GuessType(path)>> },
                                     "file", "", Walk(<<>>, path), NoPayload) >>,
                         "")
                /\ opened' = [opened EXCEPT ![t] = { Walk(<<>>, path) }]
    /\ UNCHANGED <<tmp, checks, veo, uploads>>

\* DoUnsupported answering 404
DoUnsupportedNotFound(t) ==
    /\ pc[t] = "idle"
    /\ \E r \in Requests :
        /\ r.method \notin { "OPTIONS", "GET", "POST" }
        /\ Ended(t, r, << SendError(404, "Not Found") >>, "")
    /\ UNCHANGED <<tmp, opened, checks, veo, uploads>>

\* a method the handler class defines no do_<METHOD> for: the base class answers 501
DoUnsupported(t) ==
    /\ pc[t] = "idle"
    /\ \E r \in Requests :
        /\ r.method \notin { "OPTIONS", "GET", "POST" }
        /\ Ended(t, r, << SendError(501, "Unsupported method") >>, "")
    /\ UNCHANGED <<tmp, opened, checks, veo, uploads>>


\* cgi.parse_header(self.headers.get("Content-Type", ""))[0]
ParseHeader(h) == IF h = <<>> THEN "" ELSE h[1]

HasBoundary(h) == \E i \in 2..Len(h) : h[i] = "boundary=BB"

\* form["model"] if "model" in form else None: <<>> is None, a list of two or more
\* parts is the list FieldStorage returns for a repeated field
FieldsNamed(form, n) == SelectSeq(form.parts, LAMBDA part : part.name = n)

\* getattr(upload_field, "filename", ""): a list has no filename
UploadFilename(fields) ==
    IF Len(fields) = 1 /\ fields[1].filename # <<>> THEN fields[1].filename[1] ELSE <<>>

\* form.getfirst("prompt") if "prompt" in form else None
PromptField(form) ==
    LET fields == FieldsNamed(form, "prompt") IN
    IF fields = <<>> THEN <<>> ELSE << fields[1].value >>

Check(name, result) == [check |-> name, result |-> result]

Verdict(ran, outcome, status, message, e, suffix, prompt) ==
    [checks |-> ran, outcome |-> outcome, status |-> status, message |-> message,
     exc |-> e, suffix |-> suffix, prompt |-> prompt]

Fails(ran, status, message) == Verdict(ran, "error", status, message, "", <<>>, <<>>)
Raises(ran, e) == Verdict(ran, "raise", 0, "", e, <<>>, <<>>)

ValidSuffixes == { <<".", "g", "l", "t", "f">>, <<".", "g", "l", "b">> }

\* FileSuffix without the lower-casing
FileSuffixCaseSensitive(filename) == PathSuffix(PathParts(filename))

\* file_suffix of do_POST
FileSuffix(filename) == Lower(PathSuffix(PathParts(filename)))

\* TooLarge with the limit itself rejected
TooLargeInclusive(n) == n >= MAX_CONTENT_LENGTH

\* the content-length test of do_POST
TooLarge(n) == n > MAX_CONTENT_LENGTH

\* Validate with the length check made before the content-type check
ValidateLengthFirst(r) ==
    LET c1 == << Check("path", IF r.path # ApiGenerate THEN "fail" ELSE "pass") >>
        c2 == Append(c1, Check("length",
                  IF r.clen.kind = "garbage" THEN "raise"
                  ELSE IF TooLarge(r.clen.n) THEN "fail" ELSE "pass"))
        c3 == Append(c2, Check("ctype",
                  IF ParseHeader(r.ctype) # "multipart/form-data" THEN "fail" ELSE "pass"))
        upload_field == FieldsNamed(r.form, "model")
        filename == UploadFilename(upload_field)
        c4 == Append(c3, Check("model",
                  IF upload_field = <<>> \/ filename = <<>> THEN "fail" ELSE "pass"))
        file_suffix == FileSuffix(filename)
        c5 == Append(c4, Check("ext",
                  IF file_suffix \notin ValidSuffixes THEN "fail" ELSE "pass"))
    IN  IF c1[1].result = "fail" THEN Fails(c1, 404, "Unknown endpoint")
        ELSE IF c2[2].result = "raise" THEN Raises(c2, "ValueError")
        ELSE IF c2[2].result = "fail" THEN Fails(c2, 413, "File too large")
        ELSE IF c3[3].result = "fail" THEN Fails(c3, 400, "Expected multipart/form-data")
        ELSE IF ~HasBoundary(r.ctype) THEN Raises(c3, "ValueError")
        ELSE IF r.form.broken THEN Raises(c3, "ConnectionResetError")
        ELSE IF c4[4].result = "fail" THEN Fails(c4, 400, "Missing model file upload")
        ELSE IF c5[5].result = "fail"
             THEN Fails(c5, 415, "Only GLTF/GLB files are supported")
        ELSE Verdict(c5, "ok", 0, "", "", file_suffix, PromptField(r.form))

\* do_POST up to prompt_field: the checks in the order the code makes them
Validate(r) ==
    LET c1 == << Check("path", IF r.path # ApiGenerate THEN "fail" ELSE "pass") >>
        c2 == Append(c1, Check("ctype",
                  IF ParseHeader(r.ctype) # "multipart/form-data" THEN "fail" ELSE "pass"))
        c3 == Append(c2, Check("length",
                  IF r.clen.kind = "garbage" THEN "raise"
                  ELSE IF TooLarge(r.clen.n) THEN "fail" ELSE "pass"))
        upload_field == FieldsNamed(r.form, "model")
        filename == UploadFilename(upload_field)
        c4 == Append(c3, Check("model",
                  IF upload_field = <<>> \/ filename = <<>> THEN "fail" ELSE "pass"))
        file_suffix == FileSuffix(filename)
        c5 == Append(c4, Check("ext",
                  IF file_suffix \notin ValidSuffixes THEN "fail" ELSE "pass"))
    IN  IF c1[1].result = "fail" THEN Fails(c1, 404, "Unknown endpoint")
        ELSE IF c2[2].result = "fail" THEN Fails(c2, 400, "Expected multipart/form-data")
        ELSE IF c3[3].result = "raise" THEN Raises(c3, "ValueError")
        ELSE IF c3[3].result = "fail" THEN Fails(c3, 413, "File too large")
        ELSE IF ~HasBoundary(r.ctype) THEN Raises(c3, "ValueError")
        ELSE IF r.form.broken THEN Raises(c3, "ConnectionResetError")
        ELSE IF c4[4].result = "fail" THEN Fails(c4, 400, "Missing model file upload")
        ELSE IF c5[5].result = "fail"
             THEN Fails(c5, 415, "Only GLTF/GLB files are supported")
        ELSE Verdict(c5, "ok", 0, "", "", file_suffix, PromptField(r.form))

\* do_POST, lines 78-111: validation of a request drawn from R
DoPost(t, R) ==
    /\ pc[t] = "idle"
    /\ \E r \in R :
        /\ r.method = "POST"
        /\ LET v == Validate(r) IN
           /\ checks' = [checks EXCEPT ![t] = v.checks]
           /\ IF v.outcome = "error"
              THEN Ended(t, r, << SendError(v.status, v.message) >>, "")
              ELSE IF v.outcome = "raise"
              THEN Ended(t, r, <<>>, v.exc)
              ELSE /\ pc' = [pc EXCEPT ![t] = "mkstemp"]
                   /\ req' = [req EXCEPT ![t] = r]
                   /\ UNCHANGED <<resp, exc>>
    /\ UNCHANGED <<tmp, opened, veo, uploads>>

\* the file name tempfile builds from a random token and the suffix
TempName(k, suffix) == <<"t", "m", "p", ToString(k)>> \o suffix

\* FreeNames without the exclusive-create test
AnyNames(suffix) ==
    { TempName(k, suffix) : k \in 1..MaxNames }

\* the names mkstemp may return: those no file of the directory has
FreeNames(suffix) ==
    { TempName(k, suffix) : k \in 1..MaxNames } \ uploads

\* line 113: tempfile.mkstemp(suffix=file_suffix, dir=UPLOAD_DIR)
Mkstemp(t) ==
    /\ pc[t] = "mkstemp"
    /\ LET names == FreeNames(Validate(req[t]).suffix) IN
       IF names = {}
       THEN /\ pc' = [pc EXCEPT ![t] = "done"]
            /\ exc' = [exc EXCEPT ![t] = "FileExistsError"]
            /\ UNCHANGED <<tmp, uploads>>
       ELSE /\ \E name \in names :
                /\ tmp' = [tmp EXCEPT ![t] = name]
                /\ uploads' = uploads \cup { name }
            /\ pc' = [pc EXCEPT ![t] = "copy"]
            /\ UNCHANGED exc
    /\ UNCHANGED <<req, resp, opened, checks, veo>>

\* lines 114-115: the upload is copied into the scratch file, or the write fails
CopyUpload(t) ==
    /\ pc[t] = "copy"
    /\ \/ /\ pc' = [pc EXCEPT ![t] = "call"]
          /\ UNCHANGED exc
       \/ /\ pc' = [pc EXCEPT ![t] = "done"]
          /\ exc' = [exc EXCEPT ![t] = "OSError"]
    /\ UNCHANGED <<req, resp, tmp, opened, checks, veo, uploads>>

DefaultPrompt == "(default prompt)"

\* generate_video_using_veo(file_path, prompt)
GenerateVideoUsingVeo(file_path, prompt) ==
    [videoUrl |-> "https://example.com/generated-veo-ad.mp4",
     jobId |-> "demo-job-1234",
     status |-> "queued",
     usedPrompt |-> IF prompt = <<>> \/ prompt[1] = "" THEN DefaultPrompt ELSE prompt[1],
     sourceModel |-> PathName(file_path)]

\* lines 118-119: the collaborator returns its payload, or (once the stub is
\* replaced by a provider call) raises
CallVeo(t) ==
    /\ pc[t] = "call"
    /\ \/ veo' = [veo EXCEPT ![t] =
                    [called |-> TRUE, fileExisted |-> tmp[t] \in uploads,
                     outcome |-> "returned",
                     payload |-> GenerateVideoUsingVeo(Append(UPLOAD_DIR, tmp[t]),
                                                       Validate(req[t]).prompt)]]
       \/ veo' = [veo EXCEPT ![t] =
                    [called |-> TRUE, fileExisted |-> tmp[t] \in uploads,
                     outcome |-> "raised", payload |-> NoPayload]]
    /\ pc' = [pc EXCEPT ![t] = "unlink"]
    /\ UNCHANGED <<req, resp, tmp, opened, checks, exc, uploads>>

\* the file Path(temp_path).unlink(missing_ok=True) removes
Unlinked(t) == { tmp[t] }

\* lines 120-122: the finally clause; an exception of the call goes on after it
Unlink(t) ==
    /\ pc[t] = "unlink"
    /\ uploads' = uploads \ Unlinked(t)
    /\ IF veo[t].outcome = "raised"
       THEN /\ pc' = [pc EXCEPT ![t] = "done"]
            /\ exc' = [exc EXCEPT ![t] = "RuntimeError"]
       ELSE /\ pc' = [pc EXCEPT ![t] = "respond"]
            /\ UNCHANGED exc
    /\ UNCHANGED <<req, resp, tmp, opened, checks, veo>>

\* lines 124-130: the JSON response
SendJson(t) ==
    /\ pc[t] = "respond"
    /\ resp' = [resp EXCEPT ![t] =
                  Append(@, Response(200,
                                     CommonHeaders
                                       \cup { <<"Content-Type", "application/json">>,
                                              <<"Content-Length", "len(response_bytes)">> },
                                     "json", "", NoEnt, veo[t].payload))]
    /\ pc' = [pc EXCEPT ![t] = "done"]
    /\ UNCHANGED <<req, tmp, opened, checks, veo, exc, uploads>>

\* the handler has returned or raised: the connection is closed and the thread
\* takes the next request with a fresh handler object
Finish(t) ==
    /\ pc[t] = "done"
    /\ pc' = [pc EXCEPT ![t] = "idle"]
    /\ req' = [req EXCEPT ![t] = NoRequest]
    /\ resp' = [resp EXCEPT ![t] = <<>>]
    /\ tmp' = [tmp EXCEPT ![t] = <<>>]
    /\ opened' = [opened EXCEPT ![t] = {}]
    /\ checks' = [checks EXCEPT ![t] = <<>>]
    /\ veo' = [veo EXCEPT ![t] = NoVeo]
    /\ exc' = [exc EXCEPT ![t] = ""]
    /\ UNCHANGED uploads

Next ==
    \/ \E t \in Threads : DoOptions(t)
    \/ \E t \in Threads : DoGet(t)
    \/ \E t \in Threads : DoUnsupported(t)
    \/ \E t \in Threads : DoPost(t, Requests)
    \/ \E t \in Threads : Mkstemp(t)
    \/ \E t \in Threads : CopyUpload(t)
    \/ \E t \in Threads : CallVeo(t)
    \/ \E t \in Threads : Unlink(t)
    \/ \E t \in Threads : SendJson(t)
    \/ \E t \in Threads : Finish(t)

Spec == Init /\ [][Next]_vars

NextConc ==
    \/ \E t \in Threads : DoPost(t, ConcRequests)
    \/ \E t \in Threads : Mkstemp(t)
    \/ \E t \in Threads : CopyUpload(t)
    \/ \E t \in Threads : CallVeo(t)
    \/ \E t \in Threads : Unlink(t)
    \/ \E t \in Threads : SendJson(t)
    \/ \E t \in Threads : Finish(t)

SpecConc == InitConc /\ [][NextConc]_vars

---------------------------------------------------------------------------
(* Vocabulary of the properties *)

Done(t) == pc[t] = "done"

\* thread t answered its request with exactly one response, of this status
Answered(t, status) == Len(resp[t]) = 1 /\ resp[t][1].status = status

\* a POST to /api/generate that the handler takes for a multipart upload
IsUpload(r) ==
    /\ r.method = "POST"
    /\ r.path = ApiGenerate
    /\ r.ctype # <<>>
    /\ r.ctype[1] = "multipart/form-data"

\* the parts of the body that are named model
ModelFields(r) == SelectSeq(r.form.parts, LAMBDA part : part.name = "model")

\* the upload carries one model file with a non-empty file name
HasModelFile(r) ==
    /\ Len(ModelFields(r)) = 1
    /\ ModelFields(r)[1].filename # <<>>
    /\ ModelFields(r)[1].filename[1] # <<>>

ClientFilename(r) == ModelFields(r)[1].filename[1]

\* the declared Content-Length is a number (or absent) and not above 100 MiB
LengthAccepted(r) == r.clen.kind # "garbage" /\ r.clen.n <= 104857600

\* the multipart body can be read and parsed
BodyParsed(r) == (\E i \in 2..Len(r.ctype) : r.ctype[i] = "boundary=BB") /\ ~r.form.broken

\* fn ends in the extension ext, letter case aside, after a non-empty base name
FinalExtensionIs(fn, ext) ==
    /\ Len(fn) > Len(ext)
    /\ Lower(SubSeq(fn, Len(fn) - Len(ext) + 1, Len(fn))) = ext
    /\ fn[Len(fn) - Len(ext)] # "/"

Gltf == <<".", "g", "l", "t", "f">>
Glb == <<".", "g", "l", "b">>

SupportedExtension(fn) == FinalExtensionIs(fn, Gltf) \/ FinalExtensionIs(fn, Glb)

\* the resolved file lies below the public root
InsideRoot(file) ==
    /\ Len(file) > Len(PUBLIC_DIR)
    /\ SubSeq(file, 1, Len(PUBLIC_DIR)) = PUBLIC_DIR

\* thread t is between the creation and the removal of its scratch file
Holding(t) == pc[t] \in { "copy", "call", "unlink" }

---------------------------------------------------------------------------
(* C1 *)

\* C1: whenever the handling of a POST /api/generate that created a scratch
\* file has ended (the collaborator returned, the collaborator raised, or
\* writing the upload into the file failed), the scratch file no longer
\* exists; and once the 200 response is sent the file is already deleted.
TempFileCleanup ==
    \A t \in Threads :
        /\ (Done(t) /\ tmp[t] # <<>>) => tmp[t] \notin uploads
        /\ (pc[t] # "idle" /\ tmp[t] # <<>> /\ Answered(t, 200)) => tmp[t] \notin uploads

---------------------------------------------------------------------------
(* C2 *)

\* C2: every file do_GET opens and sends lies inside the public root, and a
\* GET whose path resolves outside the root is answered 404.
PathTraversalGuard ==
    \A t \in Threads :
        (Done(t) /\ req[t].method = "GET") =>
            /\ \A f \in opened[t] : InsideRoot(f)
            /\ Answered(t, 200) => InsideRoot(resp[t][1].file)
            /\ ~InsideRoot(Walk(<<>>, GetTarget(req[t].path))) => Answered(t, 404)

---------------------------------------------------------------------------
(* C3 *)

\* C3: the 200 JSON response of a POST /api/generate has sourceModel equal to
\* the file name the client supplied, usedPrompt equal to the supplied prompt
\* field or "(default prompt)" when no prompt field was sent, and status
\* "queued".
JobDescriptor ==
    \A t \in Threads :
        (Done(t) /\ req[t].method = "POST" /\ Answered(t, 200)) =>
            LET payload == resp[t][1].payload
                prompts == SelectSeq(req[t].form.parts, LAMBDA part : part.name = "prompt")
            IN  /\ payload.sourceModel = ClientFilename(req[t])
                /\ payload.usedPrompt =
                       IF prompts = <<>> THEN "(default prompt)" ELSE prompts[1].value
                /\ payload.status = "queued"

---------------------------------------------------------------------------
(* C4 *)

CheckOrder == <<"path", "ctype", "length", "model", "ext">>

CheckStatus(name) ==
    CASE name = "path" -> 404 [] name = "ctype" -> 400 [] name = "length" -> 413
      [] name = "model" -> 400 [] name = "ext" -> 415

\* the failure condition of each check, stated on the request
CheckFails(name, r) ==
    CASE name = "path" -> r.path # ApiGenerate
      [] name = "ctype" -> r.ctype = <<>> \/ r.ctype[1] # "multipart/form-data"
      [] name = "length" -> r.clen.kind = "int" /\ r.clen.n > 104857600
      [] name = "model" ->
            ModelFields(r) = <<>>
            \/ (Len(ModelFields(r)) = 1
                /\ (ModelFields(r)[1].filename = <<>> \/ ModelFields(r)[1].filename[1] = <<>>))
      [] name = "ext" -> HasModelFile(r) /\ ~SupportedExtension(ClientFilename(r))

\* C4: the checks of do_POST run in the order path (404), content type (400),
\* declared length (413), model field (400), extension (415); each check whose
\* failure condition holds of the request fails; after a check that did not
\* pass no later check runs; a failed check ends the request with exactly the
\* status of that check, with no scratch file created, the collaborator not
\* invoked and no 200 sent; and a scratch file, a collaborator call or a 200
\* only come after all five checks passed.
FailFastOrder ==
    \A t \in Threads :
        (pc[t] # "idle" /\ req[t].method = "POST") =>
            LET c == checks[t]
                n == Len(c)
            IN  /\ n \in 1..5
                /\ \A i \in 1..n :
                      /\ c[i].check = CheckOrder[i]
                      /\ CheckFails(CheckOrder[i], req[t]) => c[i].result = "fail"
                      /\ i < n => c[i].result = "pass"
                /\ c[n].result = "fail" =>
                      /\ Done(t)
                      /\ Answered(t, CheckStatus(c[n].check))
                      /\ tmp[t] = <<>>
                      /\ ~veo[t].called
                /\ (tmp[t] # <<>> \/ veo[t].called \/ pc[t] \in { "mkstemp", "copy", "call", "unlink", "respond" }
                    \/ (\E i \in 1..Len(resp[t]) : resp[t][i].status = 200)) =>
                      (n = 5 /\ c[5].result = "pass")

\* a request that passed the first four checks and was rejected by the fifth
FailFastOrderWitness ==
    \E t \in Threads :
        /\ Done(t)
        /\ Len(checks[t]) = 5
        /\ checks[t][5].result = "fail"
        /\ Answered(t, 415)

---------------------------------------------------------------------------
(* C5 *)

\* C5: an upload to /api/generate (a POST the handler takes for multipart)
\* whose declared Content-Length is greater than 104,857,600 is answered
\* exactly 413 and no scratch file is written; a declared length of exactly
\* 104,857,600 or less, or an absent header, passes the length check and is
\* not answered 413.
SizeCeiling ==
    \A t \in Threads :
        (pc[t] # "idle" /\ IsUpload(req[t])) =>
            /\ (req[t].clen.kind = "int" /\ req[t].clen.n > 104857600) =>
                  /\ Done(t)
                  /\ Answered(t, 413)
                  /\ tmp[t] = <<>>
            /\ (req[t].clen.kind = "absent"
                \/ (req[t].clen.kind = "int" /\ req[t].clen.n <= 104857600)) =>
                  /\ Len(checks[t]) >= 3
                  /\ checks[t][3] = Check("length", "pass")
                  /\ \A i \in 1..Len(resp[t]) : resp[t][i].status # 413

\* an otherwise valid upload of declared length 104,857,601 has been answered 413
SizeCeilingWitness ==
    \E t \in Threads :
        /\ Done(t)
        /\ IsUpload(req[t])
        /\ req[t].clen = [kind |-> "int", n |-> 104857601]
        /\ HasModelFile(req[t])
        /\ SupportedExtension(ClientFilename(req[t]))
        /\ Answered(t, 413)
        /\ uploads = {}

---------------------------------------------------------------------------
(* C6 *)

\* the request reaches the extension check: it is an upload that passes the
\* checks made before it
ReachesExtensionCheck(r) ==
    /\ IsUpload(r)
    /\ LengthAccepted(r)
    /\ BodyParsed(r)
    /\ HasModelFile(r)

\* C6: every upload to /api/generate that reaches the extension check (its
\* declared length is accepted, its body is parsed and it carries one model
\* file with a non-empty name) and whose file name has no final extension
\* .gltf or .glb, letter case aside, is answered exactly 415 with no scratch
\* file created; a file name with extension .gltf or .glb in any
\* letter case passes the check and is never answered 415; and the scratch
\* file's suffix is the lower-cased extension of the file name.
ExtensionCheck ==
    \A t \in Threads :
        (pc[t] # "idle" /\ ReachesExtensionCheck(req[t])) =>
            LET fn == ClientFilename(req[t]) IN
            /\ ~SupportedExtension(fn) =>
                  /\ Done(t)
                  /\ Answered(t, 415)
                  /\ tmp[t] = <<>>
            /\ SupportedExtension(fn) =>
                  /\ checks[t][5] = Check("ext", "pass")
                  /\ \A i \in 1..Len(resp[t]) : resp[t][i].status # 415
                  /\ tmp[t] # <<>> =>
                        \E ext \in { Gltf, Glb } :
                            /\ FinalExtensionIs(fn, ext)
                            /\ FinalExtensionIs(tmp[t], ext)
                            /\ SubSeq(tmp[t], Len(tmp[t]) - Len(ext) + 1, Len(tmp[t])) = ext

\* an upload with an unsupported extension that reached the check got 415
ExtensionCheckWitness ==
    \E t \in Threads :
        /\ Done(t)
        /\ ReachesExtensionCheck(req[t])
        /\ ClientFilename(req[t]) = <<"c", ".", "t", "x", "t">>
        /\ Answered(t, 415)

---------------------------------------------------------------------------
(* C7 *)

\* C7 as stated: every request that is not OPTIONS, GET or POST /api/generate
\* is answered 404, other HTTP methods included.
DispatchDefaultNotFound ==
    \A t \in Threads :
        (Done(t) /\ req[t].method \notin { "OPTIONS", "GET" }
         /\ ~(req[t].method = "POST" /\ req[t].path = ApiGenerate)) =>
            Answered(t, 404)

\* C7 amended: a POST to any path other than /api/generate is answered 404;
\* a request of any method other than OPTIONS, GET and POST is answered 501
\* on every path.
DispatchDefault ==
    \A t \in Threads :
        Done(t) =>
            /\ (req[t].method = "POST" /\ req[t].path # ApiGenerate) => Answered(t, 404)
            /\ req[t].method \notin { "OPTIONS", "GET", "POST" } => Answered(t, 501)

\* a DELETE of /api/generate has been answered 501
DispatchDefaultWitness ==
    \E t \in Threads :
        /\ Done(t)
        /\ req[t].method = "DELETE"
        /\ req[t].path = ApiGenerate
        /\ Answered(t, 501)

---------------------------------------------------------------------------
(* C8 *)

\* C8: an OPTIONS request to any path is answered 204 with the headers
\* Access-Control-Allow-Origin: *, Access-Control-Allow-Methods: POST, GET,
\* OPTIONS and Access-Control-Allow-Headers: Content-Type and an empty body;
\* its handler opens no file of the public root and neither creates nor
\* removes a file of the scratch directory.
CorsPreflight ==
    /\ [](\A t \in Threads :
            (Done(t) /\ req[t].method = "OPTIONS") =>
                /\ Answered(t, 204)
                /\ { <<"Access-Control-Allow-Origin", "*">>,
                     <<"Access-Control-Allow-Methods", "POST, GET, OPTIONS">>,
                     <<"Access-Control-Allow-Headers", "Content-Type">> }
                       \subseteq resp[t][1].headers
                /\ resp[t][1].kind = "empty"
                /\ opened[t] = {}
                /\ tmp[t] = <<>>)
    /\ [][\A t \in Threads :
            (pc[t] = "idle" /\ req'[t].method = "OPTIONS") => uploads' = uploads]_vars

\* an OPTIONS request for a path outside the public root has been answered
CorsPreflightWitness ==
    \E t \in Threads :
        /\ Done(t)
        /\ req[t].method = "OPTIONS"
        /\ req[t].path = <<".", ".", "/", "s">>
        /\ Answered(t, 204)

---------------------------------------------------------------------------
(* C9 *)

\* C9: in every interleaving of concurrent uploads no two requests in flight
\* hold the same scratch-file path; the scratch file of a request exists from
\* its creation until that request's own cleanup, so no other request's
\* cleanup deletes it; and the collaborator of each request is invoked while
\* the request's own scratch file exists.
NoInterference ==
    /\ \A t \in Threads : \A u \in Threads \ {t} :
          (Holding(t) /\ Holding(u)) => tmp[t] # tmp[u]
    /\ \A t \in Threads : Holding(t) => tmp[t] \in uploads
    /\ \A t \in Threads : veo[t].called => veo[t].fileExisted

\* one request's cleanup has run while another request is at the collaborator
\* call with a scratch file of the same suffix
NoInterferenceWitness ==
    \E t \in Threads : \E u \in Threads \ {t} :
        /\ pc[t] = "unlink"
        /\ veo[t].called
        /\ pc[u] = "respond"
        /\ tmp[u] # <<>>
        /\ tmp[u] \notin uploads

---------------------------------------------------------------------------
(* C10 *)

\* C10: every handled request ends with exactly one response status, and when
\* the collaborator raised, that status is a 5xx and the scratch file is
\* deleted.
CollaboratorFailure ==
    \A t \in Threads :
        Done(t) =>
            /\ Len(resp[t]) = 1
            /\ veo[t].outcome = "raised" =>
                  /\ Len(resp[t]) = 1
                  /\ resp[t][1].status \in 500..599
                  /\ tmp[t] \notin uploads

====
